---- MODULE Spec2Model ----
(***************************************************************************)
(* A model of the UAV-assisted MEC optimisation code:                      *)
(*   modules/proposed_algorithm.py  ProposedAlgorithm                      *)
(*   modules/optimization.py        optimize_resource_allocation,          *)
(*                                  optimize_trajectory                    *)
(*   modules/system_model.py        TerminalDevice                         *)
(*   modules/utils.py               load_config                            *)
(*                                                                         *)
(* Real numbers are fixed-point integers: a length, a frequency, a volume  *)
(* or an energy v of the program is the integer v * SCALE, and every       *)
(* division rounds down.  Statements about real values are therefore       *)
(* stated with a tolerance of a few units of 1/SCALE.                      *)
(***************************************************************************)
EXTENDS Integers, Sequences, FiniteSets, TLC

\* ---------------------------------------------------------------- bounds
\* Units per metre / hertz / bit / joule of the fixed-point representation.
SCALE == 100
\* Largest slot count num_slots drawn for a run.
MaxN == 8
\* Largest number of terminal devices drawn for a run.
MaxM == 2
\* Largest number of calls the caller makes in one run.
MaxCalls == 2
\* Largest slot count drawn for a run of optimize_trajectory.
MaxSlots == 4
\* Largest max_iterations argument the caller passes.
MaxIter == 2
\* Numerical tolerance of the comparisons below, in units of 1/SCALE.
Eps == 2

\* ------------------------------------------------------------ arithmetic
Max(a, b) == IF a >= b THEN a ELSE b

Abs(a) == IF a >= 0 THEN a ELSE -a

\* np.sqrt on a fixed-point argument: the integer square root, rounded down.
RECURSIVE ISqrt(_)
ISqrt(n) ==
  IF n < 2 THEN n
  ELSE LET s == 2 * ISqrt(n \div 4)
       IN  IF (s + 1) * (s + 1) <= n THEN s + 1 ELSE s

RECURSIVE SumSeq(_)
SumSeq(s) == IF s = << >> THEN 0 ELSE Head(s) + SumSeq(Tail(s))

\* np.sqrt((x1 - x2)**2 + (y1 - y2)**2) on fixed-point coordinates.
Dist(x1, y1, x2, y2) == ISqrt((x1 - x2) * (x1 - x2) + (y1 - y2) * (y1 - y2))

\* np.linspace(a, b, n), n >= 2: n evenly spaced values, both ends included.
Linspace(a, b, n) ==
  [i \in 1..n |-> a * SCALE + ((b - a) * SCALE * (i - 1)) \div (n - 1)]


\* ----------------------------------------------------------------- state
VARIABLES
  params,          \* the parameter mapping shared by every component
  devices,         \* the TerminalDevice list: position and energy_local
  pc,              \* position of the caller / of optimize_with_bcd
  calls,           \* calls made so far in this run
  max_iterations,  \* argument of the running optimize_with_bcd call
  rounds,          \* trajectory+allocation passes of the running call
  x_traj, y_traj,  \* x_proposed, y_proposed of the running call
  F_opt, L_opt,    \* the allocation of the running call
  energy,          \* the energy of the running call
  returned,        \* what optimize_with_bcd has returned, call by call
  Fm, fuav,        \* what optimize_resource_allocation returned last
  solver,          \* the convex backend's answer: status, x.value, y.value
  x_out, y_out,    \* what optimize_trajectory returned
  config,          \* the 'simulation' mapping of the YAML file
  loaded,          \* what load_config returned
  eval_in,         \* arguments of the last calculate_detailed_energy call
  energy_breakdown \* what calculate_detailed_energy returned last

coreVars == <<pc, calls, max_iterations, rounds, x_traj, y_traj, F_opt, L_opt,
              energy, returned, Fm, fuav>>

trajVars == <<solver, x_out, y_out>>

cfgVars == <<config, loaded>>

energyVars == <<eval_in, energy_breakdown>>

vars == <<params, devices, coreVars, trajVars, cfgVars, energyVars>>

\* ------------------------------------------------- modules/system_model.py
\* TerminalDevice.__init__: the position given; fm, energy_local and
\* energy_offload start at 0.
TerminalDevice(position) ==
  [position |-> position, fm |-> 0, energy_local |-> 0, energy_offload |-> 0]

\* f ** 3 of a fixed-point frequency, in Hz^3.
Cube(f) == (((f * f) \div (SCALE * SCALE)) * f) \div SCALE

\* TerminalDevice.compute_local_energy: delta * kappa_m * fm ** 3 with
\* delta = total_time / num_slots, added to energy_local.  The energy is in
\* units of kappa_m * Hz^3 * s.
LocalEnergy(p, fm) == (p.total_time * p.kappa_m * Cube(fm)) \div p.num_slots

\* compute_local_energy that also moves the device.
compute_local_energy_Moves(d, p, fm) ==
  [d EXCEPT !.energy_local = @ + LocalEnergy(p, fm),
            !.position = <<@[1] + 1, @[2], @[3]>>]

compute_local_energy(d, p, fm) ==
  [d EXCEPT !.energy_local = @ + LocalEnergy(p, fm)]

\* np.sqrt(params['L_total'] / params['C'])
BaseFreq(p) == ISqrt((p.L_total * SCALE * SCALE) \div p.C)

\* --------------------------------------------- modules/proposed_algorithm.py
\* The waypoints of _generate_adaptive_trajectory, in metres.
waypoints == << <<0, 0>>, <<2, 8>>, <<8, 9>>, <<9, 2>>, <<3, 1>>, <<10, 0>> >>

\* time_allocations = [0.1, 0.25, 0.4, 0.15, 0.1], in hundredths.
time_allocations == <<10, 25, 40, 15, 10>>

\* points = int(N * time_allocations[i])
SegmentPoints(alloc, i, N) == (N * alloc[i]) \div 100

\* The points of segment i along coordinate c (1 = x, 2 = y):
\* start[c] + t * (end[c] - start[c]) with t = j / max(points - 1, 1).
Segment(wp, alloc, i, N, c) ==
  LET points == SegmentPoints(alloc, i, N)
      den    == Max(points - 1, 1)
  IN  [k \in 1..points |->
         wp[i][c] * SCALE + ((k - 1) * (wp[i + 1][c] - wp[i][c]) * SCALE) \div den]

RECURSIVE Segments(_, _, _, _, _)
Segments(wp, alloc, i, N, c) ==
  IF i > Len(wp) - 1 THEN << >>
  ELSE Segment(wp, alloc, i, N, c) \o Segments(wp, alloc, i + 1, N, c)

\* "Pad to exact length": while len < N append the last element; x_traj[-1]
\* of an empty list raises IndexError.  Then x_traj[:N].
PadTo(s, N) ==
  SubSeq(s \o [k \in 1..Max(N - Len(s), 0) |-> s[Len(s)]], 1, N)

\* _interpolate_waypoints: the two coordinate arrays, or the IndexError.
_interpolate_waypoints(wp, alloc, N) ==
  LET xs == Segments(wp, alloc, 1, N, 1)
      ys == Segments(wp, alloc, 1, N, 2)
  IN  IF Len(xs) = 0 /\ N > 0
      THEN [raised |-> TRUE, x |-> << >>, y |-> << >>]
      ELSE [raised |-> FALSE, x |-> PadTo(xs, N), y |-> PadTo(ys, N)]

\* _generate_adaptive_trajectory: devices are not read.
_generate_adaptive_trajectory(devs, N) ==
  _interpolate_waypoints(waypoints, time_allocations, N)

\* distances[i] of _efficient_resource_allocation for one device.
Distances(d, xs, ys) ==
  [i \in 1..Len(xs) |->
     Dist(xs[i], ys[i], d.position[1] * SCALE, d.position[2] * SCALE)]

\* np.mean(distances)
Mean(s) == SumSeq(s) \div Len(s)

\* LocalFreq without its "reasonable minimum" max(fm, 100).
LocalFreq_NoMinimum(p, d, xs, ys) ==
  (BaseFreq(p) * (20 * SCALE - Mean(Distances(d, xs, ys)))) \div (20 * SCALE)

\* fm = sqrt(L_total / C) * (1 - avg_distance / 20), then max(fm, 100).
LocalFreq(p, d, xs, ys) ==
  LET avg == Mean(Distances(d, xs, ys))
      fm  == (BaseFreq(p) * (20 * SCALE - avg)) \div (20 * SCALE)
  IN  Max(fm, 100 * SCALE)

\* offload_factor without its floor of 0.3.
OffloadFactor_NoFloor(dist) == SCALE - dist \div 15

\* offload_factor = max(0.3, 1 - distances[n] / 15)
OffloadFactor(dist) == Max((3 * SCALE) \div 10, SCALE - dist \div 15)

\* L_total * offload_factor / (M * (N - 2)), for a slot n < N - 2.
OffloadVolume(p, M, N, dist) ==
  (p.L_total * OffloadFactor(dist)) \div (M * (N - 2))

\* The entries appended to L_opt['off_mu1'] for one device: slots 0..N-3.
DeviceOffloads(p, d, M, xs, ys) ==
  LET N  == Len(xs)
      ds == Distances(d, xs, ys)
  IN  [n \in 1..Max(N - 2, 0) |-> OffloadVolume(p, M, N, ds[n])]

RECURSIVE AllOffloads(_, _, _, _, _)
AllOffloads(p, devs, m, xs, ys) ==
  IF m > Len(devs) THEN << >>
  ELSE DeviceOffloads(p, devs[m], Len(devs), xs, ys)
         \o AllOffloads(p, devs, m + 1, xs, ys)

\* fu1 = sqrt(L_total / C) * 1.1
UavFreq(p) == (BaseFreq(p) * 11) \div 10

\* _efficient_resource_allocation: (F_opt, L_opt).
_efficient_resource_allocation(p, devs, xs, ys) ==
  LET N == Len(xs)
  IN  [F |-> [fm  |-> [m \in 1..Len(devs) |->
                         LET fm == LocalFreq(p, devs[m], xs, ys)
                         IN  [n \in 1..N |-> fm]],
              fu1 |-> << [n \in 1..N |-> UavFreq(p)] >>],
       L |-> [off_mu1  |-> AllOffloads(p, devs, 1, xs, ys),
              off_u1u2 |-> << >>,
              don_u1m  |-> << >>]]

\* total_path of _calculate_efficient_energy: the summed slot displacements.
TotalPath(xs, ys) ==
  SumSeq([i \in 1..(Len(xs) - 1) |-> Dist(xs[i + 1], ys[i + 1], xs[i], ys[i])])

\* np.random.normal(0, 20): a draw, in joules.
Noise == {-20, 0, 20}

\* _calculate_efficient_energy with the draw z:
\* (800 + z) * (1 + total_path / 200).
_calculate_efficient_energy(xs, ys, z) ==
  (800 + z) * SCALE + ((800 + z) * TotalPath(xs, ys)) \div 200

\* ------------------------------------------------ modules/optimization.py
\* Fm with a term that depends on where the device is.
ResourceFm_ByPosition(p, devs) ==
  [m \in 1..Len(devs) |-> BaseFreq(p) + devs[m].position[1]]

\* optimize_resource_allocation: every device gets fm = sqrt(L_total / C) and
\* records its local energy; fuav = np.mean(Fm) * 1.2.
ResourceFm(p, devs) == [m \in 1..Len(devs) |-> BaseFreq(p)]

ResourceFuav(p, devs) == (Mean(ResourceFm(p, devs)) * 12) \div 10

ResourceDevices(p, devs) ==
  [m \in 1..Len(devs) |-> compute_local_energy(devs[m], p, ResourceFm(p, devs)[m])]

\* ---------------------------------------------------------------- inputs
\* Device positions (x, y, z) in metres: TD1 of main(), close to the path,
\* and one more than 20 m away from every waypoint.
DevicePositions == {<<10, 10, 0>>, <<30, 30, 0>>}

DeviceLists ==
  UNION {[1..m -> {TerminalDevice(q) : q \in DevicePositions}] : m \in 1..MaxM}

\* Parameter sets of the core: every value strictly positive, N >= 2.
CoreParams ==
  [num_slots : 2..MaxN, total_time : {2}, Vmax : {10},
   L_total : {1600, 160000}, C : {4}, kappa_m : {1}]

NoResult == [status |-> "none", x |-> << >>, y |-> << >>]

TrajIdle == solver = NoResult /\ x_out = << >> /\ y_out = << >>

CfgIdle == config = << >> /\ loaded = << >>

EnergyIdle == eval_in = << >> /\ energy_breakdown = << >>

\* ----------------------------------------------------- the core's actions
Init ==
  /\ params \in CoreParams
  /\ devices \in DeviceLists
  /\ pc = "idle"
  /\ calls = 0
  /\ max_iterations = 0
  /\ rounds = 0
  /\ x_traj = << >> /\ y_traj = << >>
  /\ F_opt = << >> /\ L_opt = << >>
  /\ energy = 0
  /\ returned = << >>
  /\ Fm = << >> /\ fuav = 0
  /\ TrajIdle
  /\ CfgIdle
  /\ EnergyIdle

\* The caller enters optimize_with_bcd(devices, muav, huav, max_iterations).
BcdCall ==
  /\ pc = "idle"
  /\ calls < MaxCalls
  /\ \E mi \in 1..MaxIter : max_iterations' = mi
  /\ calls' = calls + 1
  /\ rounds' = 0
  /\ x_traj' = << >> /\ y_traj' = << >>
  /\ F_opt' = << >> /\ L_opt' = << >>
  /\ energy' = 0
  /\ pc' = "trajectory"
  /\ UNCHANGED <<energyVars, params, devices, returned, Fm, fuav, trajVars, cfgVars>>

\* x_proposed, y_proposed = self._generate_adaptive_trajectory(devices, N);
\* the IndexError of the padding loop leaves the call.
BcdTrajectory ==
  /\ pc = "trajectory"
  /\ LET r == _generate_adaptive_trajectory(devices, params.num_slots)
     IN  IF r.raised
         THEN /\ pc' = "raised"
              /\ UNCHANGED <<x_traj, y_traj>>
         ELSE /\ pc' = "allocate"
              /\ x_traj' = r.x
              /\ y_traj' = r.y
  /\ UNCHANGED <<energyVars, params, devices, calls, max_iterations, rounds, F_opt, L_opt,
                 energy, returned, Fm, fuav, trajVars, cfgVars>>

\* F_opt, L_opt = self._efficient_resource_allocation(devices, x, y)
BcdAllocate ==
  /\ pc = "allocate"
  /\ LET r == _efficient_resource_allocation(params, devices, x_traj, y_traj)
     IN  F_opt' = r.F /\ L_opt' = r.L
  /\ pc' = "energy"
  /\ UNCHANGED <<energyVars, params, devices, calls, max_iterations, rounds, x_traj, y_traj,
                 energy, returned, Fm, fuav, trajVars, cfgVars>>

\* energy = self._calculate_efficient_energy(devices, x, y, F_opt): one pass
\* over trajectory and allocation is complete.
BcdEnergy ==
  /\ pc = "energy"
  /\ \E z \in Noise : energy' = _calculate_efficient_energy(x_traj, y_traj, z)
  /\ rounds' = rounds + 1
  /\ pc' = "return"
  /\ UNCHANGED <<energyVars, params, devices, calls, max_iterations, x_traj, y_traj,
                 F_opt, L_opt, returned, Fm, fuav, trajVars, cfgVars>>

\* return x_proposed, y_proposed, energy, F_opt, L_opt: the caller holds the
\* result and the call's locals are gone.
BcdReturn ==
  /\ pc = "return"
  /\ returned' = Append(returned,
                   [x |-> x_traj, y |-> y_traj, energy |-> energy,
                    F_opt |-> F_opt, L_opt |-> L_opt])
  /\ pc' = "idle"
  /\ max_iterations' = 0
  /\ rounds' = 0
  /\ x_traj' = << >> /\ y_traj' = << >>
  /\ F_opt' = << >> /\ L_opt' = << >>
  /\ energy' = 0
  /\ UNCHANGED <<energyVars, params, devices, calls, Fm, fuav, trajVars, cfgVars>>

\* optimize_resource_allocation(devices, muav, params), start to return.
OptimizeResourceAllocation ==
  /\ pc = "idle"
  /\ calls < MaxCalls
  /\ calls' = calls + 1
  /\ Fm' = ResourceFm(params, devices)
  /\ fuav' = ResourceFuav(params, devices)
  /\ devices' = ResourceDevices(params, devices)
  /\ UNCHANGED <<energyVars, params, pc, max_iterations, rounds, x_traj, y_traj, F_opt,
                 L_opt, energy, returned, trajVars, cfgVars>>

Next ==
  \/ BcdCall
  \/ BcdTrajectory
  \/ BcdAllocate
  \/ BcdEnergy
  \/ BcdReturn
  \/ OptimizeResourceAllocation

Spec == Init /\ [][Next]_vars

\* ------------------------------------- optimize_trajectory and its backend
\* The statuses the convex backend reports.
Statuses ==
  {"optimal", "optimal_inaccurate", "infeasible", "infeasible_inaccurate",
   "unbounded", "user_limit"}

\* The statuses optimize_trajectory accepts, with "optimal_inaccurate" left out.
OptimalStatuses_OnlyOptimal == {"optimal"}

\* The statuses for which optimize_trajectory returns x.value, y.value.
OptimalStatuses == {"optimal", "optimal_inaccurate"}

\* The velocity constraint with the division by delta left out:
\* norm(p[i] - p[i-1]) <= Vmax.
VelocityOk_NoDelta(p, dist, tol) == dist <= p.Vmax * SCALE + tol

\* The constraint v <= Vmax on v = norm((p[i] - p[i-1]) / delta), delta =
\* total_time / N, met within tol units of displacement:
\* dist <= Vmax * delta + tol.
VelocityOk(p, dist, tol) ==
  dist * p.num_slots <= p.Vmax * p.total_time * SCALE + tol * p.num_slots

\* The constraint list of the problem: the boundary constraints and one
\* velocity constraint per slot i = 1..N-1.
Constraints(p, xs, ys, tol) ==
  /\ Len(xs) = p.num_slots /\ Len(ys) = p.num_slots
  /\ xs[1] = 0 /\ ys[1] = 0
  /\ xs[Len(xs)] = 10 * SCALE /\ ys[Len(ys)] = 0
  /\ \A i \in 2..Len(xs) :
       VelocityOk(p, Dist(xs[i], ys[i], xs[i - 1], ys[i - 1]), tol)

\* The positions the backend's assignment is drawn from.
GridX == {0, (10 * SCALE) \div 4, (10 * SCALE) \div 2, (30 * SCALE) \div 4, 10 * SCALE}

GridY == {0, (10 * SCALE) \div 4}

\* Assignments to the variables x, y of N slots with the ends on the pins.
Assignments(N) ==
  {[x |-> xs, y |-> ys] :
     xs \in {f \in [1..N -> GridX] : f[1] = 0 /\ f[N] = 10 * SCALE},
     ys \in {f \in [1..N -> GridY] : f[1] = 0 /\ f[N] = 0}}

\* x_fallback, y_fallback = np.linspace(0, 10, N), np.linspace(0, 0, N)
FallbackX(N) == Linspace(0, 10, N)

FallbackY(N) == Linspace(0, 0, N)

TrajParams ==
  [num_slots : 2..MaxSlots, total_time : {1, 2}, Vmax : {1, 10, 20},
   L_total : {1600}, C : {4}, kappa_m : {1}]

CoreIdle ==
  /\ calls = 0 /\ max_iterations = 0 /\ rounds = 0
  /\ x_traj = << >> /\ y_traj = << >>
  /\ F_opt = << >> /\ L_opt = << >>
  /\ energy = 0 /\ returned = << >>
  /\ Fm = << >> /\ fuav = 0

InitTraj ==
  /\ params \in TrajParams
  /\ devices \in {l \in DeviceLists : Len(l) = 1}
  /\ pc = "idle"
  /\ CoreIdle
  /\ TrajIdle
  /\ CfgIdle
  /\ EnergyIdle

\* prob.solve(...): the backend answers with a status and, when the status is
\* an optimal one, with an assignment that meets the constraints within its
\* tolerance; which of these it picks (the objective) is left open.
Solve ==
  /\ pc = "idle"
  /\ \/ \E st \in Statuses \ {"optimal", "optimal_inaccurate"} :
          solver' = [status |-> st, x |-> << >>, y |-> << >>]
     \/ \E st \in {"optimal", "optimal_inaccurate"} :
          \E a \in Assignments(params.num_slots) :
            /\ Constraints(params, a.x, a.y, Eps)
            /\ solver' = [status |-> st, x |-> a.x, y |-> a.y]
  /\ pc' = "solved"
  /\ UNCHANGED <<energyVars, params, devices, calls, max_iterations, rounds, x_traj, y_traj,
                 F_opt, L_opt, energy, returned, Fm, fuav, x_out, y_out, cfgVars>>

\* The status test and the two returns of optimize_trajectory.
TrajectoryReturn ==
  /\ pc = "solved"
  /\ IF solver.status \notin OptimalStatuses
     THEN /\ x_out' = FallbackX(params.num_slots)
          /\ y_out' = FallbackY(params.num_slots)
     ELSE /\ x_out' = solver.x
          /\ y_out' = solver.y
  /\ pc' = "done"
  /\ UNCHANGED <<energyVars, params, devices, calls, max_iterations, rounds, x_traj, y_traj,
                 F_opt, L_opt, energy, returned, Fm, fuav, solver, cfgVars>>

NextTraj == Solve \/ TrajectoryReturn

SpecTraj == InitTraj /\ [][NextTraj]_vars

\* ------------------------------------------------------ modules/utils.py
\* A YAML scalar or node as yaml.safe_load hands it over: an integer, a
\* string (its characters), null, or a list.
YamlInt(n) == [kind |-> "int", val |-> n, text |-> << >>]

YamlStr(t) == [kind |-> "str", val |-> 0, text |-> t]

YamlNull == [kind |-> "null", val |-> 0, text |-> << >>]

YamlList == [kind |-> "list", val |-> 0, text |-> << >>]

\* A Python float.
Float(n) == [kind |-> "float", val |-> n, text |-> << >>]

DigitValue(c) ==
  CASE c = "0" -> 0 [] c = "1" -> 1 [] c = "2" -> 2 [] c = "3" -> 3
    [] c = "4" -> 4 [] c = "5" -> 5 [] c = "6" -> 6 [] c = "7" -> 7
    [] c = "8" -> 8 [] c = "9" -> 9 [] OTHER -> -1

AllDigits(t) == Len(t) > 0 /\ \A i \in DOMAIN t : DigitValue(t[i]) >= 0

RECURSIVE DecimalValue(_)
DecimalValue(t) ==
  IF t = << >> THEN 0
  ELSE 10 * DecimalValue(SubSeq(t, 1, Len(t) - 1)) + DigitValue(t[Len(t)])

RECURSIVE Pow10(_)
Pow10(n) == IF n = 0 THEN 1 ELSE 10 * Pow10(n - 1)

\* str.strip(): float() ignores surrounding blanks.
RECURSIVE Strip(_)
Strip(t) ==
  IF t = << >> THEN t
  ELSE IF Head(t) = " " THEN Strip(Tail(t))
  ELSE IF t[Len(t)] = " " THEN Strip(SubSeq(t, 1, Len(t) - 1))
  ELSE t

\* float(text) for decimal digits with an optional exponent, "30e6": the
\* number, or ValueError.
ParseFloat(text) ==
  LET t    == Strip(text)
      es   == {i \in DOMAIN t : t[i] = "e"}
      epos == IF es = {} THEN 0 ELSE CHOOSE i \in es : \A j \in es : i <= j
      mant == IF epos = 0 THEN t ELSE SubSeq(t, 1, epos - 1)
      ex   == IF epos = 0 THEN << >> ELSE SubSeq(t, epos + 1, Len(t))
  IN  IF AllDigits(mant) /\ (epos = 0 \/ AllDigits(ex))
      THEN [ok |-> TRUE, val |-> DecimalValue(mant) * Pow10(DecimalValue(ex))]
      ELSE [ok |-> FALSE, val |-> 0]

\* try: params[k] = float(v)  except (ValueError, TypeError): pass
ConvertValue(v) ==
  CASE v.kind = "int" -> Float(v.val)
    [] v.kind = "str" -> IF ParseFloat(v.text).ok
                         THEN Float(ParseFloat(v.text).val)
                         ELSE v
    [] OTHER -> v

\* The loop of load_config over params.items().
ConvertAll(m) == [k \in DOMAIN m |-> ConvertValue(m[k])]

\* Parameters the core reads from the mapping.
ParamNames == {"num_slots", "Vmax"}

\* Values a configuration file gives a parameter.
YamlValues ==
  {YamlInt(50), YamlStr(<<"3", "e", "2">>), YamlStr(<<" ", "1", "0">>),
   YamlStr(<<"a", "b", "c">>), YamlStr(<<"1", "e">>), YamlNull, YamlList}

\* The files: with or without the 'simulation' key, and under it any of the
\* parameters with any value.
ConfigFiles ==
  {[has_simulation |-> h, simulation |-> m] :
     h \in BOOLEAN,
     m \in UNION {[names -> YamlValues] : names \in SUBSET ParamNames}}

InitCfg ==
  /\ params = << >>
  /\ devices = << >>
  /\ pc = "idle"
  /\ CoreIdle
  /\ TrajIdle
  /\ config \in {c \in ConfigFiles : c.has_simulation \/ c.simulation = << >>}
  /\ loaded = << >>
  /\ EnergyIdle

\* load_config(path): data['simulation'] raises KeyError when the key is
\* missing; otherwise the converted mapping is returned.
LoadConfig ==
  /\ pc = "idle"
  /\ IF config.has_simulation
     THEN /\ loaded' = ConvertAll(config.simulation)
          /\ pc' = "done"
     ELSE /\ loaded' = loaded
          /\ pc' = "raised"
  /\ UNCHANGED <<energyVars, params, devices, calls, max_iterations, rounds, x_traj, y_traj,
                 F_opt, L_opt, energy, returned, Fm, fuav, trajVars, config>>

\* main(): params = load_config('config.yaml'); the core then reads
\* params['num_slots'] and the other entries of the returned mapping.
UseConfig ==
  /\ pc = "done"
  /\ params = << >>
  /\ params' = loaded
  /\ pc' = "configured"
  /\ UNCHANGED <<energyVars, devices, calls, max_iterations, rounds, x_traj, y_traj,
                 F_opt, L_opt, energy, returned, Fm, fuav, trajVars, cfgVars>>

NextCfg == LoadConfig \/ UseConfig

SpecCfg == InitCfg /\ [][NextCfg]_vars

\* --------------------------------------------- modules/energy_calculator.py
\* The scheme names main() uses, and one that no branch of the model knows.
Schemes == {"Proposed", "FUT", "NLC", "OLC", "Hover"}

RECURSIVE SeqMin(_)
SeqMin(s) ==
  IF Len(s) = 1 THEN s[1]
  ELSE LET r == SeqMin(Tail(s)) IN IF Head(s) <= r THEN Head(s) ELSE r

\* min_distance of one device over the trajectory.
MinDistance(d, xs, ys) == SeqMin(Distances(d, xs, ys))

\* The scheme-specific multipliers 1.0, 3.5, 2.0, in tenths.
SchemeMultiplier(scheme) ==
  CASE scheme = "Proposed" -> 10
    [] scheme = "FUT" -> 35
    [] scheme = "NLC" -> 20

\* comm_energy with the horizontal distance left out of the channel gain.
DeviceCommEnergy_NoDistance(p, d, xs, ys, scheme) ==
  (SchemeMultiplier(scheme) * (p.H1 * SCALE * p.H1 * SCALE)) \div (10 * p.alpha0)

\* comm_energy of one device under an offloading scheme:
\* channel_gain = alpha0 / (min_distance**2 + H1**2), base_energy = 1e-6 /
\* channel_gain, times the multiplier.  alpha0 is in units of 1e-6 and the
\* energy in units of 1/SCALE^2 J.
DeviceCommEnergy(p, d, xs, ys, scheme) ==
  LET min_distance == MinDistance(d, xs, ys)
  IN  (SchemeMultiplier(scheme)
         * (min_distance * min_distance + p.H1 * SCALE * p.H1 * SCALE))
        \div (10 * p.alpha0)

\* _calculate_communication_energy: nothing is added under "OLC"; under a
\* name that no branch assigns, total_comm_energy += comm_energy raises
\* UnboundLocalError at the first device.  The total is in units of 1/SCALE J.
_calculate_communication_energy(p, devs, xs, ys, scheme) ==
  IF scheme = "OLC"
  THEN [raised |-> FALSE, per_device |-> [m \in DOMAIN devs |-> 0], total |-> 0]
  ELSE IF scheme \notin {"Proposed", "FUT", "NLC"} /\ Len(devs) > 0
  THEN [raised |-> TRUE, per_device |-> << >>, total |-> 0]
  ELSE LET per == [m \in DOMAIN devs |-> DeviceCommEnergy(p, devs[m], xs, ys, scheme)]
       IN  [raised |-> FALSE, per_device |-> per, total |-> SumSeq(per) \div SCALE]

\* N * delta * kappa * (base_freq * tenths / 10) ** 3 with delta = T / N.
ComputeTerm(p, N, kappa, tenths) ==
  (N * p.total_time * kappa * Cube((BaseFreq(p) * tenths) \div 10) * SCALE) \div N

\* _calculate_computing_energy: F_opt is not read.
_calculate_computing_energy(p, F, scheme, N) ==
  CASE scheme \in {"Proposed", "FUT"} ->
         [local |-> ComputeTerm(p, N, p.kappa_m, 7),
          uav   |-> ComputeTerm(p, N, p.kappa_u1, 11)]
    [] scheme = "NLC" ->
         [local |-> ComputeTerm(p, N, p.kappa_m, 1),
          uav   |-> ComputeTerm(p, N, p.kappa_u1, 25)]
    [] scheme = "OLC" ->
         [local |-> ComputeTerm(p, N, p.kappa_m, 22) * 4,
          uav   |-> ComputeTerm(p, N, p.kappa_u1, 1)]
    [] OTHER -> [local |-> 0, uav |-> 0]

\* velocity = dist / delta of slot i, delta = total_time / len(x_traj).
SlotVelocity(p, xs, ys, i) ==
  (Dist(xs[i], ys[i], xs[i - 1], ys[i - 1]) * Len(xs)) \div p.total_time

\* UAV.fly_energy with v ** 2 in place of v ** 3.
fly_energy_Square(p, v) ==
  (p.total_time * (p.epsilon1 * ((v * v) \div (SCALE * SCALE)) * SCALE + p.epsilon2 * v))
    \div p.num_slots

\* UAV.fly_energy(v): delta * (eps1 * v ** 3 + eps2 * v) with
\* delta = total_time / num_slots.
fly_energy(p, v) ==
  (p.total_time * (p.epsilon1 * Cube(v) * SCALE + p.epsilon2 * v)) \div p.num_slots

\* _calculate_flight_energy: the sum over slots 1..N-1 of
\* delta * (epsilon1 * velocity**3 + epsilon2 * velocity), N = len(x_traj).
_calculate_flight_energy(p, xs, ys) ==
  SumSeq([k \in 1..(Len(xs) - 1) |->
            LET velocity == SlotVelocity(p, xs, ys, k + 1)
            IN  (p.total_time * (p.epsilon1 * Cube(velocity) * SCALE
                                   + p.epsilon2 * velocity)) \div Len(xs)])

\* The total with the two weights exchanged.
WeightedTotal_Swapped(p, comm, local, uav, flight) ==
  p.theta_u * (comm + local) + p.theta_m * (uav + flight)

\* theta_m * (comm + local) + theta_u * (uav + flight)
WeightedTotal(p, comm, local, uav, flight) ==
  p.theta_m * (comm + local) + p.theta_u * (uav + flight)

\* calculate_detailed_energy: the breakdown, or the UnboundLocalError.
calculate_detailed_energy(p, devs, xs, ys, scheme, F) ==
  LET comm   == _calculate_communication_energy(p, devs, xs, ys, scheme)
      comp   == _calculate_computing_energy(p, F, scheme, Len(xs))
      flight == _calculate_flight_energy(p, xs, ys)
  IN  [raised          |-> comm.raised,
       comm_per_device |-> comm.per_device,
       communication   |-> comm.total,
       local_computing |-> comp.local,
       uav_computing   |-> comp.uav,
       flight          |-> flight,
       total           |-> WeightedTotal(p, comm.total, comp.local, comp.uav, flight)]

\* ------------------------------------------- inputs of the energy evaluation
\* F_opt=None.
NoAllocation == [fm |-> << >>, fu1 |-> << >>]

\* Trajectories handed to the evaluation: the proposed one, the straight line
\* of FUT, and a straight line with one position more than num_slots.
TrajectoryInputs(p) ==
  LET a == _generate_adaptive_trajectory(<< >>, p.num_slots)
  IN  (IF a.raised THEN {} ELSE {[x |-> a.x, y |-> a.y]})
        \cup {[x |-> Linspace(0, 10, n), y |-> Linspace(0, 0, n)] :
                n \in {p.num_slots, p.num_slots + 1}}

\* Allocations handed to the evaluation: none, or the proposed one.
AllocationInputs(p, devs, xs, ys) ==
  {NoAllocation, _efficient_resource_allocation(p, devs, xs, ys).F}

EnergyParams ==
  [num_slots : 2..MaxSlots, total_time : {2}, Vmax : {10},
   L_total : {1600}, C : {4}, kappa_m : {1}, kappa_u1 : {2},
   epsilon1 : {1}, epsilon2 : {3}, alpha0 : {1}, H1 : {5},
   theta_m : {1}, theta_u : {3}]

InitDetailed ==
  /\ params \in EnergyParams
  /\ devices \in DeviceLists
  /\ pc = "idle"
  /\ CoreIdle
  /\ TrajIdle
  /\ CfgIdle
  /\ EnergyIdle

\* EnergyCalculator(params).calculate_detailed_energy(devices, trajectory,
\* scheme_name, F_opt), start to return or to the exception.
CalculateDetailedEnergy ==
  /\ pc = "idle"
  /\ calls < MaxCalls
  /\ calls' = calls + 1
  /\ \E t \in TrajectoryInputs(params), scheme \in Schemes :
       \E F \in AllocationInputs(params, devices, t.x, t.y) :
         LET r == calculate_detailed_energy(params, devices, t.x, t.y, scheme, F)
         IN  /\ eval_in' = [x |-> t.x, y |-> t.y, scheme |-> scheme, F |-> F]
             /\ IF r.raised
                THEN pc' = "raised" /\ energy_breakdown' = << >>
                ELSE pc' = pc /\ energy_breakdown' = r
  /\ UNCHANGED <<params, devices, max_iterations, rounds, x_traj, y_traj, F_opt,
                 L_opt, energy, returned, Fm, fuav, trajVars, cfgVars>>

NextDetailed == CalculateDetailedEnergy

SpecDetailed == InitDetailed /\ [][NextDetailed]_vars

\* ------------------------------------------------------- claims: the core
\* The results to which a claim about optimize_with_bcd applies: the one
\* about to be returned, and those returned before.
Results ==
  {returned[k] : k \in DOMAIN returned}
    \cup (IF pc = "return"
          THEN {[x |-> x_traj, y |-> y_traj, energy |-> energy,
                 F_opt |-> F_opt, L_opt |-> L_opt]}
          ELSE {})

\* Bits a device processes locally when it runs at the frequencies fs, one
\* per slot of length delta = total_time / N, at C cycles per bit.
LocalLoad(p, fs) == (SumSeq(fs) * p.total_time) \div (Len(fs) * p.C)

\* The offloaded volume of device m: its N - 2 entries of off_mu1.
DeviceOffloaded(L, m, N) ==
  SumSeq(SubSeq(L.off_mu1, (m - 1) * Max(N - 2, 0) + 1, m * Max(N - 2, 0)))

\* A device's total task load: L_total, or its share L_total / M.
DeviceLoads(p, M) == {p.L_total * SCALE, (p.L_total * SCALE) \div M}

\* C3: for every allocation the resource allocator produces and every
\* device, the locally processed load plus the offloaded volume summed over
\* the slots equals the device's total task load, within the tolerance.
C3_WorkloadConserved ==
  /\ \A r \in Results : \A m \in DOMAIN devices :
       \E load \in DeviceLoads(params, Len(devices)) :
         Abs(LocalLoad(params, r.F_opt.fm[m])
               + DeviceOffloaded(r.L_opt, m, Len(r.x)) - load) <= Eps
  /\ \A m \in DOMAIN Fm :
       \E load \in DeviceLoads(params, Len(devices)) :
         Abs(LocalLoad(params, [n \in 1..params.num_slots |-> Fm[m]]) - load) <= Eps

\* C4: every value of a returned allocation is non-negative: each local
\* frequency F_opt['fm'], each UAV frequency F_opt['fu1'], each offloaded
\* volume L_opt['off_mu1'], and Fm and fuav of optimize_resource_allocation.
C4_NonNegative ==
  /\ \A r \in Results :
       /\ \A m \in DOMAIN r.F_opt.fm : \A n \in DOMAIN r.F_opt.fm[m] :
            r.F_opt.fm[m][n] >= 0
       /\ \A u \in DOMAIN r.F_opt.fu1 : \A n \in DOMAIN r.F_opt.fu1[u] :
            r.F_opt.fu1[u][n] >= 0
       /\ \A k \in DOMAIN r.L_opt.off_mu1 : r.L_opt.off_mu1[k] >= 0
  /\ \A m \in DOMAIN Fm : Fm[m] >= 0
  /\ fuav >= 0

\* C4's case: an allocation was returned for a device so far away that the
\* unclamped frequency 1 - avg/20 is negative, with offloaded volumes in it,
\* and optimize_resource_allocation has returned too.
C4_Witness ==
  /\ Fm # << >>
  /\ \E r \in Results : \E m \in DOMAIN devices :
       /\ Mean(Distances(devices[m], r.x, r.y)) > 20 * SCALE
       /\ r.F_opt.fm[m][1] = 100 * SCALE
       /\ r.L_opt.off_mu1 # << >>

\* C5: the returned trajectory has exactly N positions, the first is the
\* pinned start (0, 0) and the last is the pinned end (10, 0).
C5_PinnedEndpoints ==
  \A r \in Results :
    /\ Len(r.x) = params.num_slots /\ Len(r.y) = params.num_slots
    /\ r.x[1] = 0 /\ r.y[1] = 0
    /\ r.x[Len(r.x)] = 10 * SCALE /\ r.y[Len(r.y)] = 0

\* C6: two evaluations with identical devices, trajectory, allocation and
\* params give identical energies.
C6_Deterministic ==
  \A r1, r2 \in Results :
    (r1.x = r2.x /\ r1.y = r2.y /\ r1.F_opt = r2.F_opt /\ r1.L_opt = r2.L_opt)
      => r1.energy = r2.energy

\* The INIT round's energy: the energy of the straight line between the
\* pinned endpoints, for the draw z.
InitEnergy(N, z) ==
  _calculate_efficient_energy(Linspace(0, 10, N), Linspace(0, 0, N), z)

\* C7: the energy optimize_with_bcd returns is never greater than the energy
\* of the INIT round (here: than the largest value that round can take).
C7_NotWorseThanInit ==
  \A r \in Results : \E z \in Noise : r.energy <= InitEnergy(params.num_slots, z)

\* C8: optimize_with_bcd runs at most max_iterations rounds and ends in a
\* terminal state, CONVERGED or EXHAUSTED.  The code measures no relative
\* improvement, so the only terminal state it could be in is EXHAUSTED: the
\* round cap reached.
C8_BoundedRounds ==
  /\ rounds <= max_iterations
  /\ pc = "return" => rounds = max_iterations

\* C9: for N >= 2 and strictly positive parameters optimize_with_bcd never
\* raises.
C9_NeverRaises == pc # "raised"

\* --------------------------------------------- claims: optimize_trajectory
\* Slot i of the returned trajectory is within the velocity bound:
\* ||p[i] - p[i-1]|| <= Vmax * delta, up to Eps units of displacement.
SlotWithinVmax(i) ==
  Dist(x_out[i], y_out[i], x_out[i - 1], y_out[i - 1]) * params.num_slots
    <= params.Vmax * params.total_time * SCALE + Eps * params.num_slots

\* The pinned end is reachable from the pinned start at Vmax within the
\* horizon: (N - 1) * Vmax * delta >= 10.
Reachable ==
  (params.num_slots - 1) * params.Vmax * params.total_time >= 10 * params.num_slots

\* The straight line of N evenly spaced points from (0, 0) to (10, 0).
IsStraightLine(xs, ys) ==
  /\ Len(xs) = params.num_slots /\ Len(ys) = params.num_slots
  /\ \A i \in DOMAIN xs :
       /\ xs[i] = (10 * SCALE * (i - 1)) \div (params.num_slots - 1)
       /\ ys[i] = 0

\* C1 as claimed: every trajectory optimize_trajectory returns, the solver's
\* or the fallback, keeps every slot within the velocity bound.
C1_VelocityBound ==
  pc = "done" => \A i \in 2..Len(x_out) : SlotWithinVmax(i)

\* C1 as amended: the bound holds for every returned trajectory whenever the
\* pinned end is reachable at Vmax within the horizon.
C1_VelocityBoundWhenReachable ==
  (pc = "done" /\ Reachable) => \A i \in 2..Len(x_out) : SlotWithinVmax(i)

\* C1's case: the fallback was returned with the horizon exactly long enough,
\* so that every slot of the straight line flies at Vmax.
C1_Witness ==
  /\ pc = "done"
  /\ solver.status = "user_limit"
  /\ (params.num_slots - 1) * params.Vmax * params.total_time
       = 10 * params.num_slots
  /\ IsStraightLine(x_out, y_out)

\* C2: optimize_trajectory returns the straight line exactly when the status
\* is neither "optimal" nor "optimal_inaccurate" and the solver's values
\* otherwise; with Vmax too low for the distance it returns the straight
\* line; and once the backend has answered, the return is always possible.
C2_FallbackOnNonOptimal ==
  /\ pc = "solved" => ENABLED TrajectoryReturn
  /\ pc = "done" =>
       /\ solver.status \notin {"optimal", "optimal_inaccurate"}
            => IsStraightLine(x_out, y_out)
       /\ solver.status \in {"optimal", "optimal_inaccurate"}
            => (x_out = solver.x /\ y_out = solver.y)
       /\ ~Reachable => IsStraightLine(x_out, y_out)

\* C2's case: Vmax is too low, the backend said "infeasible", and the straight
\* line came back.
C2_Witness ==
  /\ pc = "done"
  /\ ~Reachable
  /\ solver.status = "infeasible"
  /\ IsStraightLine(x_out, y_out)

\* ------------------------------------------------------ claims: load_config
\* C10: no mapping load_config returns lacks a named parameter or holds a
\* value for it that is not a number.
C10_ConfigAllNumeric ==
  pc \in {"done", "configured"} =>
    \A k \in ParamNames : k \in DOMAIN loaded /\ loaded[k].kind = "float"

\* ---------------------------------------------- claims: resource allocation
\* C16: optimize_resource_allocation gives every device the same local
\* frequency, the square root of L_total / C whatever the device's position
\* and however many calls came before, and the UAV frequency is 1.2 times it.
C16_EvenSplit ==
  Fm # << >> =>
    /\ Len(Fm) = Len(devices)
    /\ \A m \in DOMAIN Fm :
         /\ Fm[m] = Fm[1]
         /\ Fm[m] >= 0
         /\ Fm[m] * Fm[m] <= (params.L_total * SCALE * SCALE) \div params.C
         /\ (Fm[m] + 1) * (Fm[m] + 1) > (params.L_total * SCALE * SCALE) \div params.C
    /\ fuav = (Fm[1] * 12) \div 10

\* Two devices at different positions, after a second call on the same
\* devices.
C16_Witness ==
  /\ calls = 2
  /\ Len(Fm) = 2
  /\ devices[1].position # devices[2].position
  /\ \A m \in DOMAIN devices : devices[m].energy_local > LocalEnergy(params, Fm[m])

\* 0.3 * L_total / (M * (N - 2)), with 0.3 as the fixed-point (3 * SCALE) / 10.
OffloadLow(p, M, N) == (p.L_total * ((3 * SCALE) \div 10)) \div (M * (N - 2))

\* L_total / (M * (N - 2))
OffloadHigh(p, M, N) == (p.L_total * SCALE) \div (M * (N - 2))

\* C17: for a trajectory of length N >= 3 and M >= 1 devices the allocation
\* of _efficient_resource_allocation has exactly M * (N - 2) offloaded-volume
\* entries, each between 0.3 * L_total / (M * (N - 2)) and
\* L_total / (M * (N - 2)), and their sum is at most L_total.
C17_OffloadEntries ==
  \A r \in Results :
    LET N == Len(r.x)
        M == Len(devices)
    IN  (N >= 3 /\ M >= 1) =>
          /\ Len(r.L_opt.off_mu1) = M * (N - 2)
          /\ \A k \in DOMAIN r.L_opt.off_mu1 :
               /\ r.L_opt.off_mu1[k] >= OffloadLow(params, M, N)
               /\ r.L_opt.off_mu1[k] <= OffloadHigh(params, M, N)
          /\ SumSeq(r.L_opt.off_mu1) <= params.L_total * SCALE

\* Two devices and at least two slots with entries: one entry on the floor
\* of 0.3 and one above it.
C17_Witness ==
  \E r \in Results :
    /\ Len(devices) = 2
    /\ Len(r.x) >= 4
    /\ \E j, k \in DOMAIN r.L_opt.off_mu1 :
         /\ r.L_opt.off_mu1[j] = OffloadLow(params, 2, Len(r.x))
         /\ r.L_opt.off_mu1[k] > OffloadLow(params, 2, Len(r.x))

\* ------------------------------------------------- claims: the energy model
\* The evaluation that produced energy_breakdown returned.
Evaluated == eval_in # << >> /\ energy_breakdown # << >>

\* C12: for every accepted input of calculate_detailed_energy the components
\* communication, local_computing, uav_computing and flight are non-negative
\* and total = theta_m * (communication + local_computing)
\*           + theta_u * (uav_computing + flight).
C12_Breakdown ==
  Evaluated =>
    /\ energy_breakdown.communication >= 0
    /\ energy_breakdown.local_computing >= 0
    /\ energy_breakdown.uav_computing >= 0
    /\ energy_breakdown.flight >= 0
    /\ energy_breakdown.total =
         params.theta_m * energy_breakdown.communication
           + params.theta_m * energy_breakdown.local_computing
           + params.theta_u * energy_breakdown.uav_computing
           + params.theta_u * energy_breakdown.flight

\* An evaluation of the proposed scheme in which all four components count.
C12_Witness ==
  /\ Evaluated
  /\ eval_in.scheme = "Proposed"
  /\ energy_breakdown.communication > 0
  /\ energy_breakdown.local_computing > 0
  /\ energy_breakdown.uav_computing > 0
  /\ energy_breakdown.flight > 0
  /\ energy_breakdown.communication + energy_breakdown.local_computing
       # energy_breakdown.uav_computing + energy_breakdown.flight

\* The sum over the rows and slots of the frequencies fs of
\* delta * kappa * f ** 3, delta = total_time / N.
AllocationEnergy(p, kappa, fs, N) ==
  SumSeq([m \in DOMAIN fs |->
            SumSeq([n \in DOMAIN fs[m] |->
                      (p.total_time * kappa * Cube(fs[m][n]) * SCALE) \div N])])

\* C13: the reported local-compute energy is the sum over devices and slots
\* of delta * kappa_m * f_m ** 3 for the local frequencies of the allocation
\* that was passed, and the UAV-compute energy the same with kappa_u1 and the
\* UAV frequencies.
C13_ComputeFromAllocation ==
  (Evaluated /\ eval_in.F # NoAllocation) =>
    /\ Abs(energy_breakdown.local_computing
             - AllocationEnergy(params, params.kappa_m, eval_in.F.fm,
                                Len(eval_in.x))) <= Eps
    /\ Abs(energy_breakdown.uav_computing
             - AllocationEnergy(params, params.kappa_u1, eval_in.F.fu1,
                                Len(eval_in.x))) <= Eps

\* delta * (epsilon1 * v ** 3 + epsilon2 * v) of one slot, delta = T / N.
SlotFlight(p, N, v) ==
  (p.total_time * p.epsilon1 * Cube(v) * SCALE + p.total_time * p.epsilon2 * v) \div N

\* The velocities of slots 1..N-1 of the evaluated trajectory.
Velocities ==
  [k \in 1..(Len(eval_in.x) - 1) |->
     SlotVelocity(params, eval_in.x, eval_in.y, k + 1)]

\* C14: the flight energy of a trajectory is the sum over its slots of
\* delta * (epsilon1 * v ** 3 + epsilon2 * v) at the slot's velocity, and
\* when the trajectory has num_slots positions it equals the sum of
\* UAV.fly_energy(v) over the same velocities.
C14_FlightEnergy ==
  Evaluated =>
    /\ energy_breakdown.flight =
         SumSeq([k \in DOMAIN Velocities |->
                   SlotFlight(params, Len(eval_in.x), Velocities[k])])
    /\ Len(eval_in.x) = params.num_slots =>
         energy_breakdown.flight =
           SumSeq([k \in DOMAIN Velocities |-> fly_energy(params, Velocities[k])])

\* A trajectory of num_slots positions that leaves the x axis and has slots
\* of different velocities.
C14_Witness ==
  /\ Evaluated
  /\ Len(eval_in.x) = params.num_slots
  /\ \E i \in DOMAIN eval_in.y : eval_in.y[i] > 0
  /\ \E j, k \in DOMAIN Velocities : Velocities[j] < Velocities[k]
  /\ energy_breakdown.flight > 0

OffloadingSchemes == {"Proposed", "FUT", "NLC"}

\* C15: under one offloading scheme and one params, a device's communication
\* energy is smaller on the trajectory whose minimum distance to the device
\* is smaller.
C15_CommMonotone ==
  (Evaluated /\ eval_in.scheme \in OffloadingSchemes) =>
    \A t \in TrajectoryInputs(params) : \A m \in DOMAIN devices :
      LET here  == MinDistance(devices[m], eval_in.x, eval_in.y)
          there == MinDistance(devices[m], t.x, t.y)
          other == DeviceCommEnergy(params, devices[m], t.x, t.y, eval_in.scheme)
      IN  /\ here < there => energy_breakdown.comm_per_device[m] < other
          /\ here > there => energy_breakdown.comm_per_device[m] > other

\* Two devices, and a second trajectory that stays farther from one of them.
C15_Witness ==
  /\ Evaluated
  /\ eval_in.scheme \in OffloadingSchemes
  /\ Len(devices) = 2
  /\ \E t \in TrajectoryInputs(params) : \E m \in DOMAIN devices :
       MinDistance(devices[m], eval_in.x, eval_in.y)
         < MinDistance(devices[m], t.x, t.y)

\* C18: calculate_detailed_energy returns a breakdown for every scheme name:
\* under "OLC" the communication component is 0, and under a name outside
\* {Proposed, FUT, NLC, OLC} with devices present the call does not fail but
\* returns a breakdown.
C18_BreakdownForEveryScheme ==
  eval_in # << >> =>
    /\ pc # "raised"
    /\ energy_breakdown # << >>
    /\ eval_in.scheme = "OLC" => energy_breakdown.communication = 0

\* ------------------------------------------------ the four core operations
\* One run over the same params and one device in which any of the core
\* operations may be called; two or three slots.
InitFrame ==
  /\ params \in {p \in EnergyParams : p.num_slots <= 3}
  /\ devices \in {l \in DeviceLists : Len(l) = 1}
  /\ pc = "idle"
  /\ CoreIdle
  /\ TrajIdle
  /\ CfgIdle
  /\ EnergyIdle

NextFrame == Next \/ NextTraj \/ NextDetailed

SpecFrame == InitFrame /\ [][NextFrame]_vars

\* C11: no step of optimize_resource_allocation, optimize_trajectory,
\* optimize_with_bcd or calculate_detailed_energy changes an entry of params
\* or a device's position; of a device's fields only energy_local may change.
C11_Frame ==
  [][/\ params' = params
     /\ Len(devices') = Len(devices)
     /\ \A m \in DOMAIN devices :
          devices'[m] = [devices[m] EXCEPT !.energy_local = devices'[m].energy_local]
    ]_vars

\* A device has recorded local-compute energy and an energy evaluation of the
\* same devices has returned.
C11_Witness ==
  /\ Evaluated
  /\ \E m \in DOMAIN devices : devices[m].energy_local > 0

====
